---- MODULE Spec2Model ----
(***************************************************************************)
(* A model of the procedural water surface (src/objects/water.cpp), of the *)
(* GL buffer objects it fills, and of the host loop that drives it         *)
(* (src/kernel/kernel.cpp).                                                *)
(*                                                                         *)
(* Floats are modelled without rounding: a coordinate is a rational        *)
(* num/den, a time is an integer number of ticks, and a value that comes   *)
(* out of sin/cos is kept as a symbolic term naming the function, the      *)
(* waves summed and the point of evaluation.  Integer arithmetic is C++'s  *)
(* (division truncates toward zero).  A member that was never assigned is  *)
(* kept as Uninit.                                                         *)
(*                                                                         *)
(* Three specifications share the state:                                   *)
(*   Spec        a client calling the mesh operations of one Water object  *)
(*   QuerySpec   a client calling the math queries of one Water object     *)
(*   KernelSpec  the program itself: main and Kernel::start                *)
(***************************************************************************)
EXTENDS Integers, Sequences, FiniteSets, TLC

VARIABLES
    water,      \* the Water object (Kernel::water), Null before construction
    glBuffers,  \* GL server side: data store of buffer name k is glBuffers[k]
    glArrays,   \* GL server side: number of vertex array names generated
    lastWrite,  \* bytes of the last glBufferData/glBufferSubData on the VBO
    drawCalls,  \* the glDrawElements calls of the last Water::draw
    thrown,     \* exception that left the last call ("none" when it returned)
    lastQuery,  \* outcome of the last math query
    kpc,        \* where the host program (main, Kernel::start) stands
    isRunning,  \* Kernel::isRunning
    keysDown,   \* the keys whose Kernel::*Down flag is set
    rel,        \* Kernel::relX, Kernel::relY
    frame,      \* the loop's frame counter
    dt,         \* the loop's time between frames, in ticks
    frameLog,   \* the calls into the Water object made by the current frame
    res,        \* the host's resources: for each, what has become of it
    wave,       \* the wave the constructor's loop drew last
    tex         \* the texture arrays Kernel::start is filling

waterVars == <<water, glBuffers, glArrays, lastWrite, drawCalls, thrown, lastQuery>>

kernelVars == <<kpc, isRunning, keysDown, rel, frame, dt, frameLog, res>>

genVars == <<wave, tex>>

vars == <<waterVars, kernelVars, genVars>>

-----------------------------------------------------------------------------
(* Bounds of the model *)

MaxDimX == 2
MaxDimZ == 3
MaxWaves == 1
MaxTime == 1
MaxEvents == 1
MaxFrames == 2
MaxFrameTime == 1
RandMax == 3
MaxTexDim == 4
MaxSlope == 4
SlopeDen == 3
\* the host's grid (500 x 500) and wave count (20), scaled down
KernelGrid == 2
KernelWaves == 1

(* Inputs a caller can pass *)
\* patch centres (pX, pZ)
Centers == {<<0, 0>>, <<1, -1>>}
\* side lengths: none, odd, even
Sizes == {0, 1, 2}
DimsX == 0..MaxDimX
DimsZ == 0..MaxDimZ
WaveCounts == 0..MaxWaves
Amplitudes == {-1, 1}
TimeSteps == {-1, 0, 1}
Times == (0 - MaxTime)..MaxTime

Null == [null |-> TRUE]

SizeofFloat == 4
SizeofUInt == 4

-----------------------------------------------------------------------------
(* C++ arithmetic *)

Abs(a) == IF a < 0 THEN 0 - a ELSE a

\* int / int : truncation toward zero
CDiv(a, b) == IF (a < 0) = (b < 0) THEN Abs(a) \div Abs(b) ELSE 0 - (Abs(a) \div Abs(b))

\* exact values of float expressions: rationals num/den, den > 0
Rat(n, d) == [kind |-> "rat", num |-> n, den |-> d]

\* (float)int + (float)i * w / n  with the int converted exactly
IntPlusQuot(a, i, w, n) == Rat(a * n + i * w, n)

RatEq(p, q) == p.num * q.den = q.num * p.den

RatAdd(p, q) == Rat(p.num * q.den + q.num * p.den, p.den * q.den)

RatSub(p, q) == Rat(p.num * q.den - q.num * p.den, p.den * q.den)

RatMul(p, q) == Rat(p.num * q.num, p.den * q.den)

\* p / q for q > 0
RatDiv(p, q) == Rat(p.num * q.den, p.den * q.num)

RatLeq(p, q) == p.num * q.den <= q.num * p.den

\* a member or local that was never assigned: every read of it is indeterminate
Uninit == [kind |-> "uninit"]

Time(n) == [kind |-> "time", ticks |-> n]

Name(k) == [kind |-> "name", id |-> k]

-----------------------------------------------------------------------------
(* Outcomes of a float-valued call *)

\* the float 0.0f a sum starts from
Zero == [kind |-> "value", waves |-> <<>>, neg |-> FALSE]

\* the value fn_i(x, y, t) of one wave, kept symbolic
Term(fn, i, x, y, t) ==
    [kind |-> "value", waves |-> <<i>>, neg |-> FALSE, fn |-> fn, x |-> x, y |-> y, t |-> t]

Throw(what) == [kind |-> "throw", what |-> what]

Indeterminate == [kind |-> "indeterminate"]

\* summ += r, an exception or an indeterminate operand taking the sum with it
Accumulate(summ, r) ==
    IF summ.kind = "throw" THEN summ
    ELSE IF r.kind = "throw" THEN r
    ELSE IF summ.kind = "indeterminate" \/ r.kind = "indeterminate" THEN Indeterminate
    ELSE IF summ.waves = <<>> THEN r
    ELSE IF r.waves = <<>> THEN summ
    ELSE [summ EXCEPT !.waves = @ \o r.waves]

\* vector::at(i), 0-based
InRange(v, i) == 0 <= i /\ i < Len(v)

\* one of W, ddxW, ddyW: the four at() reads, then the value in the one
\* implemented mode; control reaches the end of the function otherwise
WaveTerm(w, fn, i, x, y, t) ==
    IF ~InRange(w.Ai, i) THEN Throw("out_of_range")
    ELSE IF w.directional /\ w.rounded
         THEN Term(fn, i, x, y, t)
         ELSE Indeterminate

W(w, i, x, y, t) == WaveTerm(w, "W", i, x, y, t)

ddxW(w, i, x, y, t) == WaveTerm(w, "ddxW", i, x, y, t)

ddyW(w, i, x, y, t) == WaveTerm(w, "ddyW", i, x, y, t)

RECURSIVE SumWaves(_, _, _, _, _, _, _)
\* for (int i = 0; i < maxI; i ++) summ += fn(i, x, y, t);
SumWaves(w, fn, i, summ, x, y, t) ==
    IF i < w.maxI /\ summ.kind # "throw"
    THEN SumWaves(w, fn, i + 1, Accumulate(summ, WaveTerm(w, fn, i, x, y, t)), x, y, t)
    ELSE summ

H(w, x, y, t) == SumWaves(w, "W", 0, Zero, x, y, t)

ddxH(w, x, y, t) == SumWaves(w, "ddxW", 0, Zero, x, y, t)

ddyH(w, x, y, t) == SumWaves(w, "ddyW", 0, Zero, x, y, t)

\* 0 - r
Negate(r) == IF r.kind = "value" /\ r.waves # <<>> THEN [r EXCEPT !.neg = ~@] ELSE r

One == Rat(1, 1)

\* glm::vec3(0 - ddxH, 0 - ddyH, 1); ddxH is evaluated before ddyH or after it,
\* both throw or neither does
N(w, x, y, t) ==
    LET dx == ddxH(w, x, y, t)
        dy == ddyH(w, x, y, t)
    IN IF dx.kind = "throw" THEN dx
       ELSE IF dy.kind = "throw" THEN dy
       ELSE [kind |-> "value", x |-> Negate(dx), y |-> Negate(dy), z |-> One]

-----------------------------------------------------------------------------
(* Water: construction and the mesh *)

\* the member initialiser list; the vectors start empty, the scalars and the
\* GL names without a value
Members(px, pz, pw, pl, pdimx, pdimz, maxA, maxI, dir, rnd) ==
    [pX |-> px, pZ |-> pz, pW |-> pw, pL |-> pl, pDimX |-> pdimx, pDimZ |-> pdimz,
     maxA |-> maxA, maxI |-> maxI, directional |-> dir, rounded |-> rnd,
     Ai |-> <<>>, wi |-> <<>>, Di |-> <<>>, Si |-> <<>>,
     internalTime |-> Uninit, VAO |-> Uninit, VBO |-> Uninit, EBO |-> Uninit,
     vertices |-> <<>>, indices |-> <<>>]

\* the k-th push_back of the wave loop: what iteration i drew for parameter p
Draw4(p, i) == [param |-> p, wave |-> i]

RECURSIVE WaveLoop(_, _)
\* for (int i = 0; i < maxI; i ++) { Ai.push_back(..); wi..; Di..; Si..; }
WaveLoop(w, i) ==
    IF i < w.maxI
    THEN WaveLoop([w EXCEPT !.Ai = Append(@, Draw4("A", i)),
                            !.wi = Append(@, Draw4("w", i)),
                            !.Di = Append(@, Draw4("D", i)),
                            !.Si = Append(@, Draw4("S", i))], i + 1)
    ELSE w

\* float x = pX - pW / 2 + (float)i * pW / pDimX;
SampleX(w, i) == IntPlusQuot(w.pX - CDiv(w.pW, 2), i, w.pW, w.pDimX)

\* float z = pZ - pL / 2 + (float)j * pL / pDimZ;
SampleZ(w, j) == IntPlusQuot(w.pZ - CDiv(w.pL, 2), j, w.pL, w.pDimZ)

\* the body of the vertex loop: six push_backs, unless H or N throws first
PushSample(w, acc, i, j) ==
    LET x == SampleX(w, i)
        z == SampleZ(w, j)
        y == H(w, x, z, w.internalTime)
        n == N(w, x, z, w.internalTime)
    IN IF y.kind = "throw" THEN [vs |-> acc.vs, threw |-> y.what]
       ELSE IF n.kind = "throw" THEN [vs |-> acc.vs \o <<x, y, z>>, threw |-> n.what]
       ELSE [vs |-> acc.vs \o <<x, y, z, n.x, n.y, n.z>>, threw |-> "none"]

RECURSIVE VertexLoop(_, _, _, _)
\* for (i < pDimX) for (j < pDimZ) { ... }
VertexLoop(w, acc, i, j) ==
    IF acc.threw # "none" \/ i >= w.pDimX THEN acc
    ELSE IF j >= w.pDimZ THEN VertexLoop(w, acc, i + 1, 0)
    ELSE VertexLoop(w, PushSample(w, acc, i, j), i, j + 1)

\* an index loop striding by the other grid dimension
IndexValueByZ(w, i, j, k) == j + w.pDimZ * (i + k)

\* indices.push_back(j + pDimX * (i + k)); inside the loops the int is not
\* negative, and its conversion to unsigned int keeps the value
IndexValue(w, i, j, k) == j + w.pDimX * (i + k)

RECURSIVE IndexLoop(_, _, _, _, _)
\* for (i < pDimZ - 1) for (j < pDimX) for (k < 2) indices.push_back(..)
IndexLoop(w, acc, i, j, k) ==
    IF i >= w.pDimZ - 1 THEN acc
    ELSE IF j >= w.pDimX THEN IndexLoop(w, acc, i + 1, 0, 0)
    ELSE IF k >= 2 THEN IndexLoop(w, acc, i, j + 1, 0)
    ELSE IndexLoop(w, Append(acc, IndexValue(w, i, j, k)), i, j, k + 1)

-----------------------------------------------------------------------------
(* The GL calls the mesh makes, on the server-side state <<buffers, arrays>> *)

\* glGenBuffers(1, &b): the next unused buffer name, with no data store yet
GenBuffer(buffers) == Append(buffers, <<>>)

\* glBufferData(target, size, data, usage) on the buffer bound to target:
\* a new data store of exactly the data
BufferData(buffers, name, data) ==
    IF name.kind = "name" /\ name.id \in DOMAIN buffers
    THEN [buffers EXCEPT ![name.id] = data]
    ELSE buffers

\* glBufferSubData(target, 0, size, data): overwrites the first size bytes of
\* the store; GL_INVALID_VALUE and no change when the store is smaller, and
\* GL_INVALID_OPERATION and no change when no generated buffer is bound
BufferSubData(buffers, name, data) ==
    IF name.kind = "name" /\ name.id \in DOMAIN buffers /\ Len(data) <= Len(buffers[name.id])
    THEN [buffers EXCEPT ![name.id] =
              data \o SubSeq(@, Len(data) + 1, Len(@))]
    ELSE buffers

\* Water::setupMesh on object w: the object and the GL state it leaves.
\* With an empty grid the uploads have size 0 and read nothing through
\* &vertices[0] and &indices[0]: the stores are created empty.
setupMesh(w, buffers, arrays) ==
    LET built == VertexLoop(w, [vs |-> w.vertices, threw |-> "none"], 0, 0)
        inds == IndexLoop(w, w.indices, 0, 0, 0)
        b1 == GenBuffer(buffers)
        vbo == Name(Len(b1))
        b2 == BufferData(b1, vbo, built.vs)
        b3 == GenBuffer(b2)
        ebo == Name(Len(b3))
        b4 == BufferData(b3, ebo, inds)
    IN IF built.threw # "none"
       THEN [w |-> [w EXCEPT !.vertices = built.vs], buffers |-> buffers,
             arrays |-> arrays, wrote |-> -1, threw |-> built.threw]
       ELSE [w |-> [w EXCEPT !.vertices = built.vs, !.indices = inds,
                             !.VAO = Name(arrays + 1), !.VBO = vbo, !.EBO = ebo],
             buffers |-> b4, arrays |-> arrays + 1,
             wrote |-> Len(built.vs) * SizeofFloat, threw |-> "none"]

\* Water::Water
Construct(px, pz, pw, pl, pdimx, pdimz, maxA, maxI, dir, rnd, buffers, arrays) ==
    LET m == Members(px, pz, pw, pl, pdimx, pdimz, maxA, maxI, dir, rnd)
    IN IF dir /\ rnd
       THEN setupMesh([WaveLoop(m, 0) EXCEPT !.internalTime = Time(0)], buffers, arrays)
       ELSE [w |-> m, buffers |-> buffers, arrays |-> arrays, wrote |-> -1,
             threw |-> "none"]

\* internalTime += dT, on a clock that may never have been set
AddTime(t, dT) == IF t.kind = "time" THEN Time(t.ticks + dT) ELSE t

\* Water::updateTime
updateTime(w, dT) == [w EXCEPT !.internalTime = AddTime(@, dT)]

\* an update that forgets vertices.clear()
ClearIndicesOnly(w) == [w EXCEPT !.indices = <<>>]

\* vertices.clear(); indices.clear();
ClearMesh(w) == [w EXCEPT !.vertices = <<>>, !.indices = <<>>]

\* Water::updateMesh
updateMesh(w, buffers) ==
    LET c == ClearMesh(w)
        built == VertexLoop(c, [vs |-> c.vertices, threw |-> "none"], 0, 0)
    IN IF built.threw # "none"
       THEN [w |-> [c EXCEPT !.vertices = built.vs], buffers |-> buffers,
             wrote |-> -1, threw |-> built.threw]
       ELSE [w |-> [c EXCEPT !.vertices = built.vs],
             buffers |-> BufferSubData(buffers, c.VBO, built.vs),
             wrote |-> Len(built.vs) * SizeofFloat, threw |-> "none"]

\* glDrawElements(GL_TRIANGLE_STRIP, count, GL_UNSIGNED_INT, (void*)offset)
\* with the element buffer of vertex array vao: what the call reads
DrawElements(vao, count, offset) == [vao |-> vao, count |-> count, offset |-> offset]

\* the strip length handed over in bytes instead of in indices
StripDrawByteCount(w, i) ==
    DrawElements(w.VAO, SizeofUInt * w.pDimX, SizeofUInt * w.pDimX * i)

\* the i-th call of the loop in Water::draw
StripDraw(w, i) == DrawElements(w.VAO, w.pDimX, SizeofUInt * w.pDimX * i)

RECURSIVE DrawLoop(_, _, _)
\* for (int i = 0; i < pDimZ-1; i ++) glDrawElements(..)
DrawLoop(w, acc, i) ==
    IF i < w.pDimZ - 1 THEN DrawLoop(w, Append(acc, StripDraw(w, i)), i + 1) ELSE acc

\* Water::draw
draw(w) == DrawLoop(w, <<>>, 0)

\* the entries of the element buffer a draw call reads, as 0-based positions
FirstEntry(d) == d.offset \div SizeofUInt

EntriesRead(d) == {FirstEntry(d) + k : k \in 0..(d.count - 1)}

-----------------------------------------------------------------------------
(* What the host acquires *)

\* the handles Kernel keeps as members, the GL names of the Water object,
\* the two staging arrays of Kernel::start and the two texture names
KernelHandles == {"window", "renderer", "glContext"}
WaterNames == {"VAO", "VBO", "EBO"}
StagingArrays == {"data", "refract"}
TextureNames == {"normalTex", "refractionTex"}

Resources == KernelHandles \cup WaterNames \cup StagingArrays \cup TextureNames

\* a resource is "none" (nothing there), "uninit" (a member no constructor
\* assigned), "null" (a creation call returned NULL), "live", "released",
\* or "wild" (a release call went to something that was never acquired)
Acquire(rs, names) == [r \in Resources |-> IF r \in names THEN "live" ELSE rs[r]]

\* SDL_Destroy*, SDL_GL_DeleteContext on a member: a live handle is
\* released, NULL is refused, an unassigned member holds any bits at all
Destroy(state) ==
    CASE state = "live" -> {"released"}
      [] state = "uninit" -> {"wild", "null"}
      [] OTHER -> {state}

\* delete p; on an array that came from new[]: the forms do not match,
\* the effect is undefined
DeleteScalar(state) == IF state = "live" THEN {"released", "wild"} ELSE {state}

-----------------------------------------------------------------------------
(* A client of one Water object *)

Init ==
    /\ water = Null
    /\ glBuffers = <<>>
    /\ glArrays = 0
    /\ lastWrite = -1
    /\ drawCalls = <<>>
    /\ thrown = "none"
    /\ lastQuery = [fn |-> "none"]
    /\ kpc = "main"
    /\ isRunning = FALSE
    /\ keysDown = {}
    /\ rel = <<0, 0>>
    /\ frame = 0
    /\ dt = 0
    /\ frameLog = <<>>
    /\ res = [r \in Resources |-> "none"]
    /\ wave = Null
    /\ tex = Null

New ==
    /\ water = Null
    /\ \E c \in Centers, pw \in Sizes, pl \in Sizes,
          pdimx \in DimsX, pdimz \in DimsZ, maxA \in Amplitudes,
          maxI \in WaveCounts, dir \in BOOLEAN, rnd \in BOOLEAN :
          LET r == Construct(c[1], c[2], pw, pl, pdimx, pdimz, maxA, maxI, dir, rnd,
                             glBuffers, glArrays)
          IN /\ water' = r.w
             /\ glBuffers' = r.buffers
             /\ glArrays' = r.arrays
             /\ lastWrite' = r.wrote
             /\ thrown' = r.threw
    /\ UNCHANGED <<drawCalls, lastQuery, kernelVars, genVars>>

InTime(t) == t.kind = "time" => t.ticks \in Times

UpdateTime ==
    /\ water # Null
    /\ \E dT \in TimeSteps :
          /\ InTime(updateTime(water, dT).internalTime)
          /\ water' = updateTime(water, dT)
    /\ thrown' = "none"
    /\ UNCHANGED <<glBuffers, glArrays, lastWrite, drawCalls, lastQuery, kernelVars, genVars>>

UpdateMesh ==
    /\ water # Null
    /\ LET r == updateMesh(water, glBuffers)
       IN /\ water' = r.w
          /\ glBuffers' = r.buffers
          /\ lastWrite' = r.wrote
          /\ thrown' = r.threw
    /\ UNCHANGED <<glArrays, drawCalls, lastQuery, kernelVars, genVars>>

Draw ==
    /\ water # Null
    /\ drawCalls' = draw(water)
    /\ thrown' = "none"
    /\ UNCHANGED <<water, glBuffers, glArrays, lastWrite, lastQuery, kernelVars, genVars>>

Next == New \/ UpdateTime \/ UpdateMesh \/ Draw

Spec == Init /\ [][Next]_vars

-----------------------------------------------------------------------------
(* A client of the math queries of one Water object *)

WaveFns == {"W", "ddxW", "ddyW"}
SumFns == {"H", "ddxH", "ddyH"}

\* the calls a client makes: a per-wave function on a wave index, or a sum
Queries ==
    [fn : WaveFns, i : 0..MaxWaves, x : {Rat(0, 1), Rat(1, 1)}, y : {Rat(0, 1)}, t : {Time(0)}]
    \cup [fn : SumFns, i : {0}, x : {Rat(0, 1), Rat(1, 1)}, y : {Rat(0, 1)}, t : {Time(0)}]

Call(w, q) ==
    CASE q.fn = "W" -> W(w, q.i, q.x, q.y, q.t)
      [] q.fn = "ddxW" -> ddxW(w, q.i, q.x, q.y, q.t)
      [] q.fn = "ddyW" -> ddyW(w, q.i, q.x, q.y, q.t)
      [] q.fn = "H" -> H(w, q.x, q.y, q.t)
      [] q.fn = "ddxH" -> ddxH(w, q.x, q.y, q.t)
      [] q.fn = "ddyH" -> ddyH(w, q.x, q.y, q.t)

\* what the caller can receive: a function that ends without a return
\* statement hands back any float
Outcomes(r) ==
    IF r.kind = "indeterminate" THEN {Zero, [kind |-> "value", garbage |-> TRUE]} ELSE {r}

Query ==
    /\ water # Null
    /\ \E q \in Queries : \E r \in Outcomes(Call(water, q)) :
          /\ lastQuery' = [fn |-> q.fn, i |-> q.i, result |-> r]
          /\ thrown' = IF r.kind = "throw" THEN r.what ELSE "none"
    /\ UNCHANGED <<water, glBuffers, glArrays, lastWrite, drawCalls, kernelVars, genVars>>

QueryNext == New \/ Query

QuerySpec == Init /\ [][QueryNext]_vars

-----------------------------------------------------------------------------
(* The wave set: one iteration of the constructor's wave loop, the results
   of its five rand() calls being the inputs. RandMax stands for RAND_MAX. *)

\* #define MAXFREQ 1.0f
MAXFREQ == Rat(1, 1)

\* #define MAXSPED 0.005f
MAXSPED == Rat(5, 1000)

\* the literal 0.5
Half == Rat(1, 2)

\* the maxA the host passes: 0.1f
KernelMaxA == Rat(1, 10)

\* (float)rand() / ((float)RAND_MAX / x)  with r the value of rand()
randFloat(r, x) == RatDiv(Rat(r, 1), RatDiv(Rat(RandMax, 1), x))

\* Ai.push_back(randFloat(maxA));
WaveAmplitude(r, maxA) == randFloat(r, maxA)

\* wi.push_back(randFloat(MAXFREQ)*0.5+MAXFREQ*0.5);
WaveFrequency(r) == RatAdd(RatMul(randFloat(r, MAXFREQ), Half), RatMul(MAXFREQ, Half))

\* randFloat(1.0f)*2-1, one component of Di
WaveDirection(r) == RatSub(RatMul(randFloat(r, Rat(1, 1)), Rat(2, 1)), Rat(1, 1))

\* the draw taken whole, its halving left out
WaveSpeedUnscaled(r) == RatAdd(randFloat(r, MAXSPED), RatMul(MAXFREQ, Half))

\* Si.push_back(randFloat(MAXSPED)*0.5+MAXFREQ*0.5);
WaveSpeed(r) == RatAdd(RatMul(randFloat(r, MAXSPED), Half), RatMul(MAXFREQ, Half))

\* the body of the wave loop; rs are the five values rand() returns, in
\* the order of the calls
DrawWave(maxA, rs) ==
    [rands |-> rs,
     A |-> WaveAmplitude(rs[1], maxA),
     w |-> WaveFrequency(rs[2]),
     D |-> <<WaveDirection(rs[3]), WaveDirection(rs[4])>>,
     S |-> WaveSpeed(rs[5])]

\* an iteration reads nothing an earlier one wrote, so the first stands
\* for each of them
PushWave ==
    /\ wave = Null
    /\ \E rs \in [1..5 -> 0..RandMax] : wave' = DrawWave(KernelMaxA, rs)
    /\ UNCHANGED <<waterVars, kernelVars, tex>>

WaveNext == PushWave

WaveSpec == Init /\ [][WaveNext]_vars

-----------------------------------------------------------------------------
(* The two texture arrays of Kernel::start: one step per texel, the grid
   size and the values Water::N returns being the inputs *)

TexDims == 1..MaxTexDim

\* the values a slope component of the normal takes: k / SlopeDen
Slopes == {Rat(k, SlopeDen) : k \in (0 - MaxSlope)..MaxSlope}

\* what a build makes of (unsigned char)d for a double d whose truncation
\* does not fit the type, which the language leaves undefined: the low
\* byte of the truncated value, or the nearest end of the range
Conversions == {"wrap", "saturate"}

\* (unsigned char)v for an int v
ToUChar(v) == v % 256

\* (int)p, truncation toward zero
TruncRat(p) == CDiv(p.num, p.den)

\* (unsigned char)p for a double p
DoubleToUChar(p, conv) ==
    LET t == TruncRat(p)
    IN IF 0 <= t /\ t <= 255 THEN t
       ELSE IF conv = "wrap" THEN t % 256
       ELSE IF t < 0 THEN 0 ELSE 255

\* (normal.c / 2 + 0.5) * 256
PackNormal(c) == RatMul(RatAdd(RatDiv(c, Rat(2, 1)), Half), Rat(256, 1))

\* i * pdimZ*3 + j*3 + c
TexOffset(nz, i, j, c) == i * nz * 3 + j * 3 + c

\* new unsigned char[n]: no element written yet
NewArray(n) == [k \in 0..(n - 1) |-> -1]

\* abs(centerX - i) with centerX = pdimX / 2
CenterDist(n, i) == Abs(CDiv(n, 2) - i)

\* distance = sqrt(distX*distX + distY*distY) is 2*sqrt(RadiusSq)/(nx*nz)
RadiusSq(nx, nz, i, j) ==
    CenterDist(nx, i) * CenterDist(nx, i) * nz * nz
    + CenterDist(nz, j) * CenterDist(nz, j) * nx * nx

\* 1 - distance > 0
InsideCone(nx, nz, i, j) == 4 * RadiusSq(nx, nz, i, j) < (nx * nz) * (nx * nz)

\* 1.0f - 2*distance >= 0
NonNegative(nx, nz, i, j) == 16 * RadiusSq(nx, nz, i, j) <= (nx * nz) * (nx * nz)

\* the integer part of 2*distance*256 = 1024*sqrt(r)/m, for distance < 1
FloorScaledRoot(r, m) ==
    CHOOSE n \in 0..512 :
        /\ n * n * m * m <= 1048576 * r
        /\ (n + 1) * (n + 1) * m * m > 1048576 * r

CeilScaledRoot(r, m) ==
    LET f == FloorScaledRoot(r, m)
    IN IF f * f * m * m = 1048576 * r THEN f ELSE f + 1

\* int val = (1 - distance > 0) ? (int)((1.0f - 2*distance)*256) : 0;
RefractVal(nx, nz, i, j) ==
    IF InsideCone(nx, nz, i, j)
    THEN IF NonNegative(nx, nz, i, j)
         THEN 256 - CeilScaledRoot(RadiusSq(nx, nz, i, j), nx * nz)
         ELSE 256 - FloorScaledRoot(RadiusSq(nx, nz, i, j), nx * nz)
    ELSE 0

\* for (i ..) for (j ..): the step to the next texel, or out of the loops;
\* refract is allocated between the two
NextTexel(t) ==
    IF t.j + 1 < t.pdimZ THEN [t EXCEPT !.j = t.j + 1]
    ELSE IF t.i + 1 < t.pdimX THEN [t EXCEPT !.i = t.i + 1, !.j = 0]
    ELSE IF t.phase = "normal"
         THEN [t EXCEPT !.phase = "refract", !.i = 0, !.j = 0,
                        !.refract = NewArray(t.pdimX * t.pdimZ * 3)]
         ELSE [t EXCEPT !.phase = "done"]

\* pdimX, pdimZ are set and the loop over the normal map is entered
TexNew ==
    /\ tex = Null
    /\ \E nx \in TexDims, nz \in TexDims, conv \in Conversions :
          tex' = [pdimX |-> nx, pdimZ |-> nz, conv |-> conv, phase |-> "normal",
                  i |-> 0, j |-> 0, normal |-> <<>>, data |-> <<>>, refract |-> <<>>]
    /\ UNCHANGED <<waterVars, kernelVars, wave>>

\* normal = water->N(x, z, 0); data[..] = (unsigned char)(..); three times.
\* Of data the texel written last is kept: no texel depends on another
NormalTexel ==
    /\ tex # Null /\ tex.phase = "normal"
    /\ \E nx \in Slopes, ny \in Slopes :
          LET n == <<nx, ny, Rat(1, 1)>>
              at == TexOffset(tex.pdimZ, tex.i, tex.j, 0)
          IN tex' = NextTexel([tex EXCEPT
                 !.normal = n,
                 !.data = [k \in at..(at + 2) |->
                              DoubleToUChar(PackNormal(n[k - at + 1]), tex.conv)]])
    /\ UNCHANGED <<waterVars, kernelVars, wave>>

\* refract[..] = (unsigned char)val; three times
RefractTexel ==
    /\ tex # Null /\ tex.phase = "refract"
    /\ LET val == RefractVal(tex.pdimX, tex.pdimZ, tex.i, tex.j)
           at == TexOffset(tex.pdimZ, tex.i, tex.j, 0)
       IN tex' = NextTexel([tex EXCEPT
              !.refract = [k \in DOMAIN tex.refract |->
                              IF k \in at..(at + 2) THEN ToUChar(val) ELSE tex.refract[k]]])
    /\ UNCHANGED <<waterVars, kernelVars, wave>>

TexNext == TexNew \/ NormalTexel \/ RefractTexel

TextureSpec == Init /\ [][TexNext]_vars

-----------------------------------------------------------------------------
(* The host: main, Kernel::start and its loop *)

\* the keys Kernel::handleEvents keeps a flag for
Keys == {"w", "a", "s", "d", "space", "lshift", "return"}

\* what SDL_PollEvent can hand over
Events ==
    [type : {"KEYDOWN"}, sym : Keys \cup {"escape"}]
    \cup [type : {"KEYUP"}, sym : Keys]
    \cup [type : {"WINDOWEVENT"}, event : {"CLOSE"}]
    \cup [type : {"MOUSEMOTION"}, xrel : {1}, yrel : {-1}]

RECURSIVE EventQueues(_)
\* the queues of at most n pending events
EventQueues(n) ==
    IF n = 0 THEN {<<>>}
    ELSE EventQueues(n - 1) \cup
         {Append(q, e) : q \in {p \in EventQueues(n - 1) : Len(p) = n - 1}, e \in Events}

\* the switch of Kernel::handleEvents on one event
HandleEvent(k, e) ==
    CASE e.type = "KEYDOWN" ->
           IF e.sym = "escape" THEN [k EXCEPT !.isRunning = FALSE]
           ELSE [k EXCEPT !.keysDown = @ \cup {e.sym}]
      [] e.type = "KEYUP" -> [k EXCEPT !.keysDown = @ \ {e.sym}]
      [] e.type = "WINDOWEVENT" -> [k EXCEPT !.isRunning = FALSE]
      [] e.type = "MOUSEMOTION" -> [k EXCEPT !.rel = <<e.xrel, e.yrel>>]

RECURSIVE PollEvents(_, _)
\* while (SDL_PollEvent(&m_event)) switch (m_event.type) ...
PollEvents(k, q) == IF q = <<>> THEN k ELSE PollEvents(HandleEvent(k, Head(q)), Tail(q))

\* Kernel::handleEvents on a queue of pending events
handleEvents(k, q) == PollEvents([k EXCEPT !.rel = <<0, 0>>], q)

\* pW = 50; pL = 50;
KernelPatchSize == 50

\* water = new Water(pX, pZ, pW, pL, pdimX, pdimZ, 0.1f, 20, true, true, false)
KernelWater(buffers, arrays) ==
    Construct(0, 0, KernelPatchSize, KernelPatchSize, KernelGrid, KernelGrid, 1,
              KernelWaves, TRUE, TRUE, buffers, arrays)

\* Kernel::update: the clock, then the mesh
update(w, buffers, dT) == updateMesh(updateTime(w, dT), buffers)

\* Kernel::Kernel; the key flags are not initialised and read as anything
KernelNew ==
    /\ kpc = "main"
    /\ kpc' = "start"
    /\ isRunning' = FALSE
    /\ keysDown' \in SUBSET Keys
    /\ res' = [r \in Resources |-> IF r \in KernelHandles THEN "uninit" ELSE res[r]]
    /\ UNCHANGED <<rel, frame, dt, frameLog, waterVars, genVars>>

\* the early returns of Kernel::start, in order: what the members hold
\* when start returns there
StartSteps == <<"initSDL", "SDL_CreateWindow", "SDL_CreateRenderer", "initGL", "initIMG">>

FailedAt(rs, n) ==
    [r \in Resources |->
        CASE r = "window" /\ n = 2 -> "null"
          [] r = "window" /\ n > 2 -> "live"
          [] r = "renderer" /\ n = 3 -> "null"
          [] r = "renderer" /\ n > 3 -> "live"
          [] r = "glContext" /\ n > 3 -> "live"
          [] OTHER -> rs[r]]

\* Kernel::start when one of initSDL, SDL_CreateWindow, SDL_CreateRenderer,
\* initGL, initIMG fails: it returns before any object is set up
StartFails ==
    /\ kpc = "start"
    /\ \E n \in 1..Len(StartSteps) : res' = FailedAt(res, n)
    /\ kpc' = "returned"
    /\ UNCHANGED <<isRunning, keysDown, rel, frame, dt, frameLog, waterVars, genVars>>

\* Kernel::start, every initialisation step succeeding, up to the loop
StartSetup ==
    /\ kpc = "start"
    /\ LET r == KernelWater(glBuffers, glArrays)
       IN /\ water' = r.w
          /\ glBuffers' = r.buffers
          /\ glArrays' = r.arrays
          /\ lastWrite' = r.wrote
          /\ thrown' = r.threw
    /\ res' = Acquire(res, Resources)
    /\ isRunning' = TRUE
    /\ frame' = 0
    /\ kpc' = "loop"
    /\ UNCHANGED <<keysDown, rel, dt, frameLog, drawCalls, lastQuery, genVars>>

\* while (isRunning) { frame ++; ... dt = diff.count(); ...
FrameBegin ==
    /\ kpc = "loop" /\ isRunning
    /\ frame < MaxFrames
    /\ frame' = frame + 1
    /\ dt' \in 0..MaxFrameTime
    /\ frameLog' = <<>>
    /\ kpc' = "events"
    /\ UNCHANGED <<isRunning, keysDown, rel, res, waterVars, genVars>>

\* handleEvents();
HandleEvents ==
    /\ kpc = "events"
    /\ \E q \in EventQueues(MaxEvents) :
          LET k == handleEvents([isRunning |-> isRunning, keysDown |-> keysDown, rel |-> rel], q)
          IN /\ isRunning' = k.isRunning
             /\ keysDown' = k.keysDown
             /\ rel' = k.rel
    /\ kpc' = "update"
    /\ UNCHANGED <<frame, dt, frameLog, res, waterVars, genVars>>

\* if (frame % 2 == 1) { //update(dt); }   the branch is empty
UpdateRenderer ==
    /\ kpc = "update"
    /\ kpc' = "render"
    /\ UNCHANGED <<isRunning, keysDown, rel, frame, dt, frameLog, res, waterVars, genVars>>

\* render(); of which water->draw(..) is the call into the Water object
Render ==
    /\ kpc = "render"
    /\ drawCalls' = draw(water)
    /\ frameLog' = Append(frameLog, "draw")
    /\ kpc' = "loop"
    /\ UNCHANGED <<water, glBuffers, glArrays, lastWrite, thrown, lastQuery,
                   isRunning, keysDown, rel, frame, dt, res, genVars>>

\* the loop ends: delete data; delete refract; and start returns
LoopExit ==
    /\ kpc = "loop" /\ ~isRunning
    /\ \E d \in DeleteScalar(res["data"]), f \in DeleteScalar(res["refract"]) :
          res' = [res EXCEPT !["data"] = d, !["refract"] = f]
    /\ kpc' = "returned"
    /\ UNCHANGED <<isRunning, keysDown, rel, frame, dt, frameLog, waterVars, genVars>>

\* delete kernel; return 0;   ~Kernel destroys the renderer, the context
\* and the window, whatever start did
MainExit ==
    /\ kpc = "returned"
    /\ \E r \in Destroy(res["renderer"]), c \in Destroy(res["glContext"]),
          w \in Destroy(res["window"]) :
          res' = [res EXCEPT !["renderer"] = r, !["glContext"] = c, !["window"] = w]
    /\ kpc' = "exited"
    /\ UNCHANGED <<isRunning, keysDown, rel, frame, dt, frameLog, waterVars, genVars>>

KernelNext ==
    \/ KernelNew \/ StartFails \/ StartSetup \/ FrameBegin \/ HandleEvents
    \/ UpdateRenderer \/ Render \/ LoopExit \/ MainExit

KernelSpec == Init /\ [][KernelNext]_vars

-----------------------------------------------------------------------------
(* Vocabulary of the properties *)

Built == water # Null

\* the one implemented mode
Supported == Built /\ water.directional /\ water.rounded

\* the data store of a buffer name of the object
Store(name) == IF name.kind = "name" /\ name.id \in DOMAIN glBuffers THEN glBuffers[name.id] ELSE <<>>

VertexBuffer == Store(water.VBO)

ElementBuffer == Store(water.EBO)

\* 0-based reading of a sequence
At(seq, k) == seq[k + 1]

-----------------------------------------------------------------------------
(* C1: for every grid Nx >= 1, Nz >= 2, Water::draw issues exactly Nz-1
   strip draws, draw i reads the 2*Nx consecutive element-buffer entries at
   positions [2*Nx*i, 2*Nx*(i+1)), and together the draws read every entry
   of the index buffer exactly once. *)
C1_DrawCoversIndexBuffer ==
    (Supported /\ water.pDimX >= 1 /\ water.pDimZ >= 2 /\ drawCalls # <<>>) =>
        /\ Len(drawCalls) = water.pDimZ - 1
        /\ \A i \in 0..(water.pDimZ - 2) :
              EntriesRead(At(drawCalls, i)) =
                  (2 * water.pDimX * i)..(2 * water.pDimX * (i + 1) - 1)
        /\ \A p \in 0..(Len(ElementBuffer) - 1) :
              Cardinality({i \in 0..(Len(drawCalls) - 1) :
                              p \in EntriesRead(At(drawCalls, i))}) = 1

(* C2: after construction in the supported mode the index buffer (the
   indices vector and the element buffer uploaded from it) has exactly
   2*Nx*(Nz-1) entries, and for every row i in [0, Nz-1) and column j in
   [0, Nx) the entries at positions 2*(Nx*i + j) and 2*(Nx*i + j) + 1 are
   j + Nx*i and j + Nx*(i+1). *)
IndexShape(ib, nx, nz) ==
    /\ Len(ib) = 2 * nx * (nz - 1)
    /\ \A i \in 0..(nz - 2) : \A j \in 0..(nx - 1) :
          /\ At(ib, 2 * (nx * i + j)) = j + nx * i
          /\ At(ib, 2 * (nx * i + j) + 1) = j + nx * (i + 1)

C2_IndexBufferShape ==
    [][(~Built /\ Supported' /\ water'.pDimX >= 1 /\ water'.pDimZ >= 1) =>
          /\ IndexShape(water'.indices, water'.pDimX, water'.pDimZ)
          /\ IndexShape(ElementBuffer', water'.pDimX, water'.pDimZ)]_vars

\* a 2 x 3 grid has just been built: 8 indices, the last pair being (3, 5)
C2_Witness ==
    /\ Supported /\ water.pDimX = 2 /\ water.pDimZ = 3
    /\ Len(water.indices) = 8 /\ ElementBuffer = water.indices
    /\ At(water.indices, 6) = 3 /\ At(water.indices, 7) = 5

(* C3: the index data is immutable after construction: after any sequence
   of updateTime and updateMesh calls the indices vector and the element
   buffer are what setupMesh produced. *)
C3_IndexDataImmutable ==
    Supported =>
        /\ water.indices = IndexLoop(water, <<>>, 0, 0, 0)
        /\ ElementBuffer = IndexLoop(water, <<>>, 0, 0, 0)

(* C4: the vertex buffer never changes size: after construction and after
   every updateMesh the vertex data (the vertices vector and the buffer
   store) holds exactly 6*Nx*Nz floats, the six floats of sample (i, j)
   lie at offset 6*(i*Nz + j), and the number of bytes last written to the
   buffer is the number of bytes setupMesh allocated. *)
IsSample(vs, off, i, j) ==
    /\ At(vs, off) = SampleX(water, i)
    /\ At(vs, off + 2) = SampleZ(water, j)
    /\ \A c \in {1, 3, 4} :
          /\ At(vs, off + c).kind = "value"
          /\ Len(At(vs, off + c).waves) = water.maxI
          /\ water.maxI > 0 =>
                /\ At(vs, off + c).x = SampleX(water, i)
                /\ At(vs, off + c).y = SampleZ(water, j)
    /\ At(vs, off + 5) = One

VertexLayout(vs) ==
    /\ Len(vs) = 6 * water.pDimX * water.pDimZ
    /\ \A i \in 0..(water.pDimX - 1) : \A j \in 0..(water.pDimZ - 1) :
          IsSample(vs, 6 * (i * water.pDimZ + j), i, j)

C4_VertexBufferSize ==
    Supported =>
        /\ VertexLayout(water.vertices)
        /\ VertexLayout(VertexBuffer)
        /\ lastWrite = SizeofFloat * Len(VertexBuffer)
        /\ lastWrite = SizeofFloat * 6 * water.pDimX * water.pDimZ

\* a 2 x 3 grid, rebuilt by updateMesh after the clock moved to 1
C4_Witness ==
    /\ Supported /\ water.pDimX = 2 /\ water.pDimZ = 3 /\ water.maxI = 1
    /\ water.indices = <<>>
    /\ water.internalTime = Time(1)
    /\ Len(VertexBuffer) = 36 /\ lastWrite = 144
    /\ At(VertexBuffer, 1).t = Time(1)

(* C5: for every patch with positive W, L, Nx, Nz (odd W or L included) and
   every sample (i, j), the vertex written has x = cx - W/2 + i*W/Nx and
   z = cz - L/2 + j*L/Nz as exact quotients. *)
ExactX(w, i) == Rat(2 * w.pDimX * w.pX - w.pDimX * w.pW + 2 * i * w.pW, 2 * w.pDimX)

ExactZ(w, j) == Rat(2 * w.pDimZ * w.pZ - w.pDimZ * w.pL + 2 * j * w.pL, 2 * w.pDimZ)

C5_ExactSamplePositions ==
    (Supported /\ water.pW > 0 /\ water.pL > 0 /\ water.pDimX > 0 /\ water.pDimZ > 0) =>
        \A i \in 0..(water.pDimX - 1) : \A j \in 0..(water.pDimZ - 1) :
            /\ RatEq(At(water.vertices, 6 * (i * water.pDimZ + j)), ExactX(water, i))
            /\ RatEq(At(water.vertices, 6 * (i * water.pDimZ + j) + 2), ExactZ(water, j))

(* C6: a negative dt is refused, so the simulation time stays >= 0 and
   never decreases over any sequence of advance calls. *)
C6_ClockMonotone ==
    [][(Supported /\ Supported') =>
          /\ water'.internalTime.ticks >= water.internalTime.ticks
          /\ water'.internalTime.ticks >= 0]_vars

(* C7: in every frame of the host loop the clock is advanced by the frame's
   dt (Water::updateTime), then the mesh is optionally updated
   (Water::updateMesh), then the draw is issued; a mesh update is preceded
   in its frame by the clock advance, with no draw between the two. *)
FrameOrders == {<<"updateTime", "draw">>, <<"updateTime", "updateMesh", "draw">>}

C7_FrameOrder == (kpc = "loop" /\ frame >= 1) => frameLog \in FrameOrders

(* C8: constructing a Water in a mode other than (directional, rounded)
   signals an error and yields no object: no constructor call returns
   normally, leaving an object of such a mode with nothing built. *)
C8_UnsupportedModeRejected ==
    [][(~Built /\ Built' /\ ~Supported') => thrown' # "none"]_vars

(* C10: a construction with an invalid parameter (N <= 0, or W, L, Nx or
   Nz <= 0, or A_max < 0) aborts: no vertex or index data is generated and
   no GL buffer is created or uploaded. *)
InvalidParameter(w) ==
    \/ w.maxI <= 0
    \/ w.pW <= 0 \/ w.pL <= 0 \/ w.pDimX <= 0 \/ w.pDimZ <= 0
    \/ w.maxA < 0

C10_InvalidParameterAborts ==
    [][(~Built /\ Built' /\ InvalidParameter(water')) =>
          /\ water'.vertices = <<>> /\ water'.indices = <<>>
          /\ glBuffers' = <<>> /\ glArrays' = 0]_vars

(* C9: on a Water whose mode is not (directional, rounded) every math query
   returns zero without raising an error: H, ddxH, ddyH for every wave
   count N >= 0, and W, ddxW, ddyW for every wave index in [0, N). *)
C9_UnsupportedQueriesReturnZero ==
    (Built /\ ~Supported /\ lastQuery.fn # "none"
       /\ (lastQuery.fn \in WaveFns => lastQuery.i < water.maxI)) =>
        lastQuery.result = Zero

(* C16: for every grid Nx >= 1, Nz >= 2, after construction and after any
   number of updateMesh calls, every strip draw reads only positions that
   exist in the element buffer, and every index it reads there is smaller
   than Nx*Nz, the number of vertices the vertex buffer holds. *)
VertexCount == Len(VertexBuffer) \div 6

C16_DrawReadsInRange ==
    (Supported /\ water.pDimX >= 1 /\ water.pDimZ >= 2 /\ drawCalls # <<>>) =>
        /\ VertexCount = water.pDimX * water.pDimZ
        /\ \A n \in 1..Len(drawCalls) : \A p \in EntriesRead(drawCalls[n]) :
              /\ 0 <= p /\ p < Len(ElementBuffer)
              /\ At(ElementBuffer, p) < VertexCount

\* a 2 x 3 grid drawn after updateMesh emptied the indices vector: the
\* second strip reads positions 2 and 3, holding the indices 1 and 3
C16_Witness ==
    /\ Supported /\ water.pDimX = 2 /\ water.pDimZ = 3
    /\ water.indices = <<>> /\ water.internalTime = Time(1)
    /\ Len(drawCalls) = 2 /\ EntriesRead(drawCalls[2]) = {2, 3}
    /\ At(ElementBuffer, 2) = 1 /\ At(ElementBuffer, 3) = 3
    /\ VertexCount = 6

(* C17: the index formula agrees with the vertex layout for every grid
   size, Nx # Nz included: sample (i, j) is vertex number i*Nz + j, each
   index pair (j + Nx*i, j + Nx*(i+1)) names two vertices that are
   neighbours in the sample grid (one coordinate equal, the other differing
   by exactly 1), and consecutive pairs within a strip are neighbours
   along the other axis. *)
SampleOf(v) == <<v \div water.pDimZ, v % water.pDimZ>>

Neighbours(a, b, axis) ==
    /\ Abs(SampleOf(a)[axis] - SampleOf(b)[axis]) = 1
    /\ SampleOf(a)[3 - axis] = SampleOf(b)[3 - axis]

PairAt(ib, i, j) ==
    [lo |-> At(ib, 2 * (water.pDimX * i + j)), hi |-> At(ib, 2 * (water.pDimX * i + j) + 1)]

C17_IndexPairsAreGridNeighbours ==
    (Supported /\ water.pDimX >= 1 /\ water.pDimZ >= 2) =>
        /\ VertexLayout(VertexBuffer)
        /\ \E axis \in {1, 2} :
              \A i \in 0..(water.pDimZ - 2) : \A j \in 0..(water.pDimX - 1) :
                  /\ Neighbours(PairAt(ElementBuffer, i, j).lo,
                                PairAt(ElementBuffer, i, j).hi, axis)
                  /\ j + 1 < water.pDimX =>
                        /\ Neighbours(PairAt(ElementBuffer, i, j).lo,
                                      PairAt(ElementBuffer, i, j + 1).lo, 3 - axis)
                        /\ Neighbours(PairAt(ElementBuffer, i, j).hi,
                                      PairAt(ElementBuffer, i, j + 1).hi, 3 - axis)

(* C11: every resource that is acquired (the Water object's VAO, VBO and
   EBO, the normal and refraction textures with their staging arrays, the
   window, the renderer and the GL context) has been released once its
   owner is destroyed, on every exit path of Kernel::start, each early
   return included, and nothing is released that was never acquired. *)
C11_ResourcesReleased ==
    kpc = "exited" => \A r \in Resources : res[r] \in {"none", "null", "released"}

(* C15: after construction in the supported mode every wave speed S_i lies
   in [w_max/2, S_max] with w_max = MAXFREQ = 1.0 and S_max = MAXSPED =
   0.005, for every value the draw U(0, S_max) can take. *)
C15_SpeedInClaimedRange ==
    wave # Null =>
        /\ RatLeq(RatMul(MAXFREQ, Half), wave.S)
        /\ RatLeq(wave.S, MAXSPED)

(* C15, amended: every wave speed S_i lies in [w_max/2, w_max/2 + S_max/2],
   that is in [0.5, 0.5025], for every value the draw U(0, S_max) can
   take. *)
C15_SpeedInRange ==
    wave # Null =>
        /\ RatLeq(RatMul(MAXFREQ, Half), wave.S)
        /\ RatLeq(wave.S, RatAdd(RatMul(MAXFREQ, Half), RatMul(MAXSPED, Half)))

\* rand() returned RAND_MAX for the speed: S_i is the upper end, 0.5025
C15_Witness ==
    /\ wave # Null /\ wave.rands[5] = RandMax
    /\ RatEq(wave.S, Rat(5025, 10000))

\* the texels of the grid, and those the refraction loop has written
Texels == {<<i, j>> : i \in 0..(tex.pdimX - 1), j \in 0..(tex.pdimZ - 1)}

Refract(i, j, c) == tex.refract[TexOffset(tex.pdimZ, i, j, c)]

RefractWritten == {p \in Texels : Refract(p[1], p[2], 0) # -1}

(* C12: in the caustic texture the centre texel (Nx/2, Nz/2) holds the
   largest stored channel value of all texels, for every even Nx and Nz,
   while texel (0, 0) has all three channels zero. *)
C12_CentreIsBrightest ==
    (tex # Null /\ tex.phase = "done" /\ tex.pdimX % 2 = 0 /\ tex.pdimZ % 2 = 0) =>
        /\ \A p \in Texels : \A c \in 0..2 :
              Refract(p[1], p[2], c) <= Refract(tex.pdimX \div 2, tex.pdimZ \div 2, 0)
        /\ \A c \in 0..2 : Refract(0, 0, c) = 0

(* C13: every caustic texel stores v = max(0, floor((1 - 2d)*256)) in all
   three channels, d being its normalised distance from the centre; in
   particular every texel with d >= 0.5 stores 0. *)
ClaimedVal(nx, nz, i, j) ==
    IF NonNegative(nx, nz, i, j)
    THEN 256 - CeilScaledRoot(RadiusSq(nx, nz, i, j), nx * nz)
    ELSE 0

C13_RadialFalloff ==
    (tex # Null /\ tex.phase \in {"refract", "done"}) =>
        \A p \in RefractWritten : \A c \in 0..2 :
            /\ Refract(p[1], p[2], c) = ClaimedVal(tex.pdimX, tex.pdimZ, p[1], p[2])
            /\ 16 * RadiusSq(tex.pdimX, tex.pdimZ, p[1], p[2])
                   >= (tex.pdimX * tex.pdimZ) * (tex.pdimX * tex.pdimZ)
                 => Refract(p[1], p[2], c) = 0

(* C14: for every texel of the normal map and each of the three components
   c of N(x, z, 0), N.z = 1 and slope components of magnitude >= 1
   included, decoding the stored byte b as (b/256)*2 - 1 recovers c within
   1/128, and a packed value of exactly 256 is stored as 255. *)
Decode(b) == RatSub(RatMul(Rat(b, 256), Rat(2, 1)), Rat(1, 1))

Within(p, q, eps) == RatLeq(RatSub(p, q), eps) /\ RatLeq(RatSub(q, p), eps)

C14_NormalRoundTrip ==
    (tex # Null /\ tex.normal # <<>>) =>
        \A k \in DOMAIN tex.data :
            LET c == tex.normal[(k % 3) + 1]
            IN /\ Within(Decode(tex.data[k]), c, Rat(1, 128))
               /\ RatEq(PackNormal(c), Rat(256, 1)) => tex.data[k] = 255

====
